---- MODULE Spec2Model ----
(***************************************************************************)
(* AR session and asset lifecycle controller of the WebAR T-shirt          *)
(* experience: arController (initializeAR, startAR, stopAR, switchModel,   *)
(* the render loop), modelLoader (loadModel, disposeModel) and             *)
(* animationController (startEmergenceAnimation, updateIdleAnimation).     *)
(*                                                                         *)
(* One action is one run-to-completion piece of JavaScript: an exported    *)
(* call up to its first real suspension, or the continuation that runs     *)
(* when an awaited fetch / getUserMedia / engine.start / model load        *)
(* settles, or one timer / animation-frame / tracking-event callback.      *)
(* Objects of the collaborating engines are opaque handles; a thrown       *)
(* value is an Error object with a name and a message.                     *)
(***************************************************************************)
EXTENDS Integers, Sequences, FiniteSets, TLC

\* ------------------------------------------------------------------ values

NULL == "null"

\* currentModel when no model is active
NoModel == 0

\* animationFrameId when it holds the id of a requested frame
FRAME == "frameId"

\* the tracking-engine instance and the handles it exposes
MINDAR == "MindARThree"
RENDERER == "renderer"
SCENE == "scene"
CAMERA == "camera"
ANCHOR == "anchor"
STREAM == "MediaStream"

ModelKeys == {"AlexBird", "Bear", "Deer"}

\* error.message of a thrown Error, by what the code tests on it: empty,
\* containing 'camera', containing 'target', containing 'permission', anything else
ErrorMessages == {"", "camera", "target", "permission", "other"}

\* error.name of a rejected getUserMedia
CameraErrorNames ==
    {"NotAllowedError", "PermissionDeniedError", "NotFoundError", "DevicesNotFoundError",
     "NotReadableError", "TrackStartError", "OverconstrainedError"}

\* JavaScript  a || b  on strings
OrElse(a, b) == IF a = "" THEN b ELSE a

\* ------------------------------------------------------------------ bounds

\* polls of waitForMindAR before it gives up
maxAttempts == 100

\* render loops and startAR calls alive at the same time
MaxLoops == 2

\* model instances created by loadModel over a run of the system
MaxModels == 2

\* completed clearModelCache calls over a run of the system
MaxClears == 1

ModelIds == 1..MaxModels

\* the largest delta passed to updateIdleAnimation, in eighths of a second
MaxDelta == 10

\* the idleTime up to which updateIdleAnimation is called, in eighths of a second
MaxIdle == 24

Deltas == 0..MaxDelta

\* ------------------------------------------------------------------ state

VARIABLES
    \* arController module state
    mindarThree, renderer, scene, camera, anchor,
    currentModel, animationFrameId, isTracking, cameraStream,
    \* window.MindARThree is defined
    libLoaded,
    \* the objects behind the handles
    engineRunning,      \* an engine instance started by startAR has not been stopped
    listening,          \* targetFound/targetLost listeners are registered on an anchor
    attached,           \* model instances that are children of anchor.group
    frames,             \* number of requestAnimationFrame callbacks that are pending
    \* the initializeAR call in flight
    initPc,             \* "idle" | "head" | "waitLib" | "permission"
    headIdx,            \* resource whose HEAD check is awaited: 0 target, 1..3 models
    attempts,           \* waitForMindAR's poll counter
    \* startAR calls awaiting mindarThree.start()
    startPending,
    \* modelLoader and animationController module state
    modelCache,         \* keys that have a cached template
    templates,          \* per key, which template object is cached: 0 for none, n for
                        \* the one decoded by the n-th successful load since the cache
                        \* was last cleared
    loads,              \* switchModel calls awaiting a network model load, per key
    modelKind,          \* per created instance: "none" | "real" | "placeholder"
    meshData,           \* per created instance: the object whose geometry and material
                        \* objects the meshes of the instance reference
    animationState,     \* per instance: "none" | "started" | "emergence" | "complete"
    disposed,           \* instances that disposeModel has disposed
    \* one model under direct calls of the animationController
    animEntry,          \* its animationState entry, or NoEntry
    modelPose,          \* its scale, position.y, position.z and rotation.y
    deltaSum,           \* sum of the deltas passed since startEmergenceAnimation
    \* App component state
    initError,          \* the error the UI shows, or NoAppError
    \* callers of the modelLoader other than switchModel
    loadLog,            \* the direct loadModel calls, in call order: what each was
                        \* called with, whether it has returned, what it did and the
                        \* progress values loadModel itself reported
    clears,             \* completed clearModelCache calls
    preloadPc,          \* 0, or the position in PreloadOrder of the key whose network
                        \* load the preloadAllModels call in flight awaits
    preloadLog,         \* keys the latest preloadAllModels call has attempted, in order
    \* observation of the run
    last,               \* the latest step: operation, calls made on collaborators, outcome,
                        \* and whether it is a stopAR call directly after a stopAR call
    initLog,            \* steps attempted by the initializeAR call in flight or just
                        \* returned, with the outcome the environment gave each and
                        \* the name of the error a failed permission request raised
    initResult,         \* what the initializeAR call that just returned has returned
    initCalled,         \* initializeAR has been called
    everStarted,        \* a startAR call has resolved
    sinceStop,          \* stopAR returned and startAR was not called since
    ready               \* the latest finished initializeAR succeeded, no stopAR since

handles == <<mindarThree, renderer, scene, camera, anchor>>
loopVars == <<animationFrameId, frames>>
initVars == <<initPc, headIdx, attempts>>
loaderVars == <<modelCache, templates, loads, modelKind, meshData>>
callVars == <<loadLog, clears, preloadPc, preloadLog>>
modelVars == <<currentModel, attached, animationState, loaderVars>>
flagVars == <<isTracking, cameraStream, libLoaded, engineRunning, listening>>
animVars == <<animEntry, modelPose, deltaSum>>
ghostVars_but_ready == <<initCalled, everStarted, sinceStop>>
ghostVars == <<ghostVars_but_ready, ready>>
vars == <<handles, loopVars, initVars, startPending, modelVars, flagVars, callVars,
          disposed, animVars, initError, last, initLog, initResult, ghostVars>>

\* ------------------------------------------------------------------ results

NoError == [type |-> "none", message |-> [text |-> "", detail |-> ""]]
NoResult == [success |-> FALSE, error |-> [type |-> "pending", message |-> [text |-> "", detail |-> ""]]]

Success == [success |-> TRUE, error |-> NoError]
Failure(type, text, detail) ==
    [success |-> FALSE, error |-> [type |-> type, message |-> [text |-> text, detail |-> detail]]]

\* App's initError state when it is null
NoAppError == [type |-> "none", message |-> [text |-> "", detail |-> ""]]

\* App's ErrorType
ErrorType == {"permission", "camera", "initialization"}

toAppError_passThrough(error) == [type |-> error.type, message |-> error.message]

\* App's toAppError: the type when it is an ErrorType, else 'initialization'
toAppError(error) ==
    [type |-> IF error.type \in ErrorType THEN error.type ELSE "initialization",
     message |-> error.message]

\* what App's init effect and handleRetry show for the result r of initializeAR:
\* result.error ? toAppError(result.error) : a default initialization error
initFailure(r) ==
    IF r.error.type # "none" THEN toAppError(r.error)
    ELSE [type |-> "initialization",
          message |-> [text |-> "Failed to initialize AR", detail |-> ""]]

\* error.message.includes(word), for the messages startAR throws
Includes(message, word) ==
    \/ message.detail = word
    \/ message.text = "Failed to access camera for AR tracking"
         /\ word \in {"camera", "permission"}

\* what the catch of App's handleStartAR shows for a thrown message
startFailure(message) ==
    IF Includes(message, "camera")
    THEN [type |-> "camera",
          message |-> [text |-> "Camera access denied", detail |-> ""]]
    ELSE IF Includes(message, "permission")
    THEN [type |-> "permission",
          message |-> [text |-> "Camera permission denied", detail |-> ""]]
    ELSE [type |-> "initialization", message |-> message]

Step(name, outcome) == [step |-> name, outcome |-> outcome, error |-> ""]
Did(op, calls, result) == [op |-> op, calls |-> calls, result |-> result, again |-> FALSE]

\* a step outside initializeAR is observed; what a returned initializeAR call left
\* to observe is dropped
Seen(d) ==
    /\ last' = d
    /\ initLog' = (IF initPc = "idle" THEN <<>> ELSE initLog)
    /\ initResult' = NoResult

\* ------------------------------------------------------------------ initializeAR

\* step 1; gl: "context" | "none" | "throws"
checkWebGLSupport(gl) ==
    IF gl = "context" THEN Success
    ELSE IF gl = "none"
    THEN Failure("webgl", "WebGL is not supported on this device", "")
    ELSE Failure("webgl", "Failed to initialize WebGL", "")

\* step 2, one HEAD request of validateAssets; idx 0 is the target file, 1..3 the
\* model files; resp: "ok" | "notOk" | "rejects", msg the message of the rejection
validateAssets_ignoreModelFiles(idx, resp, msg) ==
    IF resp = "rejects"
    THEN Failure("validation", "Failed to validate AR assets", OrElse(msg, "Network error"))
    ELSE IF resp = "notOk" /\ idx = 0
    THEN Failure("validation", "AR tracking file is missing", "target")
    ELSE Success

validateAssets(idx, resp, msg) ==
    IF resp = "ok" THEN Success
    ELSE IF resp = "notOk"
    THEN IF idx = 0
         THEN Failure("validation", "AR tracking file is missing", "target")
         ELSE Failure("validation", "3D model file is missing", "model")
    ELSE Failure("validation", "Failed to validate AR assets", OrElse(msg, "Network error"))

\* step 3, the handler of a rejected waitForMindAR
libraryFailure ==
    Failure("library",
            OrElse("MindAR library failed to load from CDN", "AR library failed to load"), "")

\* step 4; perm: "granted" | "releaseThrows" (stopping the probe stream's tracks
\* throws) | "rejects" (getUserMedia rejects); name/msg of the error caught
requestCameraPermission_allUnknown(perm, name, msg) ==
    IF perm = "granted" THEN Success
    ELSE Failure("unknown", "Failed to access camera", OrElse(msg, "Unknown error"))

requestCameraPermission_bareFailure(perm, name, msg) ==
    IF perm = "granted" THEN Success
    ELSE [success |-> FALSE, error |-> NoError]

requestCameraPermission(perm, name, msg) ==
    IF perm = "granted" THEN Success
    ELSE IF name \in {"NotAllowedError", "PermissionDeniedError"}
    THEN Failure("permission", "Camera access denied", "")
    ELSE IF name \in {"NotFoundError", "DevicesNotFoundError"}
    THEN Failure("not-found", "No camera found on your device", "")
    ELSE IF name \in {"NotReadableError", "TrackStartError"}
    THEN Failure("in-use", "Camera is already in use by another application", "")
    ELSE Failure("unknown", "Failed to access camera", OrElse(msg, "Unknown error"))

\* step 5; ctor: "ok" | "throws", msg the message of the thrown error
createMindAR_ignoreThrow(ctor, msg) == Success

createMindAR(ctor, msg) ==
    IF ctor = "ok" THEN Success
    ELSE IF msg = "target"
    THEN Failure("initialization", "Invalid AR target file", "")
    ELSE Failure("initialization", "Failed to initialize AR tracking", OrElse(msg, "Unknown error"))

\* step 6; sc: "ok" | "noRenderer" | "configThrows" | "addAnchorThrows" | "noAnchor"
\*            | "setupThrows" (lighting or shadow plane), msg the message of the error
setupScene(sc, msg) ==
    IF sc = "ok" THEN Success
    ELSE IF sc = "noRenderer"
    THEN Failure("initialization", "Failed to setup AR scene", "Failed to initialize renderer")
    ELSE IF sc = "noAnchor"
    THEN Failure("initialization", "Failed to setup AR scene", "Failed to create AR anchor")
    ELSE Failure("initialization", "Failed to setup AR scene", OrElse(msg, "Unknown error"))

\* the log with the outcome of its last step filled in, once
Settle(log, outcome) ==
    IF log[Len(log)].outcome = "pending" THEN [log EXCEPT ![Len(log)].outcome = outcome]
    ELSE log

\* initializeAR returns r
Return(r, log, calls) ==
    /\ initPc' = "idle"
    /\ headIdx' = 0
    /\ attempts' = 0
    /\ initResult' = r
    /\ initLog' = log
    /\ ready' = r.success
    /\ initError' = (IF ~r.success THEN initFailure(r)
                     ELSE IF initPc = "idle" THEN NoAppError ELSE initError)
    /\ last' = Did("initializeAR.return", calls, "resolved")

\* initializeAR goes on to the next suspension
Proceed(pc, idx, log, calls) ==
    /\ initPc' = pc
    /\ headIdx' = idx
    /\ attempts' = 0
    /\ initResult' = NoResult
    /\ initLog' = log
    /\ ready' = FALSE
    /\ initError' = (IF initPc = "idle" THEN NoAppError ELSE initError)
    /\ last' = Did("initializeAR.step", calls, "pending")

\* steps 3 -> 4: the readiness wait resolved, window.MindARThree is re-checked and
\* navigator.mediaDevices.getUserMedia is called
EnterPermission(log) ==
    Proceed("permission", 0, Append(Settle(log, "ok"), Step("permission", "pending")),
            {"getUserMedia"})

\* the call of initializeAR: step 1, and the first HEAD request of step 2
initializeAR ==
    /\ initPc = "idle"
    /\ initCalled' = TRUE
    /\ \E gl \in {"context", "none", "throws"} :
         LET r == checkWebGLSupport(gl)
             log == <<Step("capability", IF gl = "context" THEN "ok" ELSE "failed")>>
         IN  IF r.success
             THEN Proceed("head", 0, Append(log, Step("validation", "pending")), {"fetch"})
             ELSE Return(r, log, {})
    /\ UNCHANGED <<animVars, disposed, callVars,
                   handles, loopVars, startPending, modelVars, flagVars,
                   everStarted, sinceStop>>

\* a HEAD request of validateAssets settles
headResponse ==
    /\ initPc = "head"
    /\ \E resp \in {"ok", "notOk", "rejects"}, msg \in {"", "other"} :
         /\ (resp # "rejects") => msg = ""
         /\ LET r == validateAssets(headIdx, resp, msg)
                log == IF resp = "ok" THEN initLog ELSE Settle(initLog, "failed")
            IN  IF ~r.success THEN Return(r, log, {})
                ELSE IF headIdx < 3 THEN Proceed("head", headIdx + 1, log, {"fetch"})
                ELSE IF libLoaded
                THEN EnterPermission(Append(Settle(log, "ok"), Step("library", "pending")))
                ELSE Proceed("waitLib", 0,
                             Append(Settle(log, "ok"), Step("library", "pending")),
                             {"setInterval"})
    /\ UNCHANGED <<animVars, disposed, callVars,
                   handles, loopVars, startPending, modelVars, flagVars, ghostVars_but_ready>>

\* the script that defines window.MindARThree finishes loading
libraryLoads ==
    /\ ~libLoaded
    /\ libLoaded' = TRUE
    /\ Seen(Did("script", {}, "none"))
    /\ UNCHANGED <<animVars, disposed, initError, callVars,
                   handles, loopVars, initVars, startPending, modelVars,
                   isTracking, cameraStream, engineRunning, listening, ghostVars>>

pollOutcome_neverGivesUp(loaded, n) == IF loaded THEN "resolve" ELSE "wait"

\* one callback of waitForMindAR's interval, the n-th: "resolve" | "reject" | "wait"
pollOutcome(loaded, n) ==
    IF loaded THEN "resolve" ELSE IF n >= maxAttempts THEN "reject" ELSE "wait"

waitForMindAR ==
    /\ initPc = "waitLib"
    /\ LET n == attempts + 1
           o == pollOutcome(libLoaded, n)
       IN  IF o = "resolve" THEN EnterPermission(initLog)
           ELSE IF o = "reject"
           THEN Return(libraryFailure, Settle(initLog, "failed"), {"clearInterval"})
           ELSE /\ attempts' = n
                /\ last' = Did("initializeAR.step", {}, "pending")
                /\ UNCHANGED <<initPc, headIdx, initResult, initLog, ready, initError>>
    /\ UNCHANGED <<animVars, disposed, callVars,
                   handles, loopVars, startPending, modelVars, flagVars, ghostVars_but_ready>>

\* what getUserMedia and the release of the probe stream can do
PermissionOutcomes ==
    {[perm |-> "granted", name |-> "", msg |-> ""]}
    \cup {[perm |-> "releaseThrows", name |-> "InvalidStateError", msg |-> m] : m \in {"", "other"}}
    \cup {[perm |-> "rejects", name |-> n, msg |-> m] : n \in CameraErrorNames, m \in {"", "other"}}

\* what new window.MindARThree(...) can do
ConstructorOutcomes ==
    {[ctor |-> "ok", msg |-> ""]}
    \cup {[ctor |-> "throws", msg |-> m] : m \in {"", "target", "other"}}

\* what the scene setup can do
SetupOutcomes ==
    {[sc |-> s, msg |-> ""] : s \in {"ok", "noRenderer", "noAnchor"}}
    \cup {[sc |-> s, msg |-> m] :
            s \in {"configThrows", "addAnchorThrows", "setupThrows"}, m \in {"", "other"}}

\* steps 5 and 6 assign the module's handles as far as they get
sceneRenderer(sc) == IF sc = "noRenderer" THEN NULL ELSE RENDERER
sceneAnchor_notStored(sc) == anchor

sceneAnchor(sc) ==
    IF sc \in {"noRenderer", "configThrows", "addAnchorThrows"} THEN anchor
    ELSE IF sc = "noAnchor" THEN NULL
    ELSE ANCHOR
sceneCalls(sc) ==
    IF sc \in {"noRenderer", "configThrows"} THEN {"new MindARThree"}
    ELSE IF sc \in {"addAnchorThrows", "noAnchor", "setupThrows"}
    THEN {"new MindARThree", "addAnchor"}
    ELSE {"new MindARThree", "addAnchor", "addEventListener"}

probeStream_kept(perm, held) == IF perm = "rejects" THEN held ELSE STREAM

\* cameraStream after step 4: assigned when getUserMedia resolves, set to null
\* once every track is stopped
probeStream(perm, held) ==
    IF perm = "releaseThrows" THEN STREAM
    ELSE IF perm = "granted" THEN NULL
    ELSE held

\* getUserMedia settles: the rest of step 4, then steps 5 and 6, which do not suspend
permissionSettles ==
    /\ initPc = "permission"
    /\ \E p \in PermissionOutcomes :
         LET r4 == requestCameraPermission(p.perm, p.name, p.msg)
             log4 == [Settle(initLog, IF p.perm = "granted" THEN "ok" ELSE "failed")
                        EXCEPT ![Len(initLog)].error = p.name]
         IN  /\ cameraStream' = probeStream(p.perm, cameraStream)
             /\ IF ~r4.success
                THEN /\ Return(r4, log4, {})
                     /\ UNCHANGED <<handles, listening, attached>>
                ELSE \E c \in ConstructorOutcomes :
                       LET r5 == createMindAR(c.ctor, c.msg)
                           log5 == Append(log4, Step("engine", IF c.ctor = "ok" THEN "ok" ELSE "failed"))
                       IN  /\ mindarThree' = (IF c.ctor = "ok" THEN MINDAR ELSE mindarThree)
                           /\ IF ~r5.success
                              THEN /\ Return(r5, log5, {"new MindARThree"})
                                   /\ UNCHANGED <<renderer, scene, camera, anchor, listening, attached>>
                              ELSE \E s \in SetupOutcomes :
                                     /\ Return(setupScene(s.sc, s.msg),
                                               Append(log5, Step("scene", IF s.sc = "ok" THEN "ok" ELSE "failed")),
                                               sceneCalls(s.sc))
                                     /\ renderer' = sceneRenderer(s.sc)
                                     /\ scene' = SCENE
                                     /\ camera' = CAMERA
                                     /\ anchor' = sceneAnchor(s.sc)
                                     /\ listening' = (listening \/ s.sc = "ok")
                                     /\ attached' = (IF s.sc \in {"noAnchor", "setupThrows", "ok"}
                                                     THEN {} ELSE attached)
    /\ UNCHANGED <<animVars, disposed, callVars,
                   loopVars, startPending, currentModel, animationState, loaderVars,
                   isTracking, libLoaded, engineRunning, ghostVars_but_ready>>

\* ------------------------------------------------------------------ animationController

\* the phases of an animationState entry: "started" as set by
\* startEmergenceAnimation (emergenceProgress 0, idleTime 0, the model in its start
\* pose), "emergence" once updated with emergenceProgress below 1, "complete" at 1
startEmergenceAnimation_keepsPhase(st, m) ==
    IF st[m] = "none" THEN [st EXCEPT ![m] = "started"] ELSE st

\* animationState.set(model, {emergenceProgress: 0, ...})
startEmergenceAnimation(st, m) == [st EXCEPT ![m] = "started"]

\* the entry of model m is in its emergence branch
emerging(st, m) == st[m] \in {"started", "emergence"}

\* one frame of animation for model m; reaches: the frame's delta takes
\* emergenceProgress to 1
updateIdleAnimation(st, m, reaches) ==
    IF emerging(st, m)
    THEN [st EXCEPT ![m] = IF reaches THEN "complete" ELSE "emergence"]
    ELSE st

\* ------------------------------------------------------------------ animation values

\* animationState.get(model) when the table has no entry for the model
NoEntry == [registered |-> FALSE]

\* delta and idleTime are counted in eighths of a second, which doubles hold and
\* add exactly. emergenceProgress is the double the code accumulates: a count of
\* 2^-56, held in two limbs as hi * 2^28 + lo
Limb == 268435456
Dbl(hi, lo) == [hi |-> hi, lo |-> lo]
Zero == Dbl(0, 0)
One == Dbl(Limb, 0)

\* the double 0.8 is 0x1999999999999A * 2^-53, so (k/8) * 0.8 is k times this
\* count of 2^-56, exactly
PointEight == Dbl(26843545, 161061274)

Less(a, b) == a.hi < b.hi \/ (a.hi = b.hi /\ a.lo < b.lo)

\* exact sum and exact k-fold multiple
Plus(a, b) == LET l == a.lo + b.lo IN Dbl(a.hi + b.hi + l \div Limb, l % Limb)
RECURSIVE Times(_, _)
Times(k, a) == IF k = 0 THEN Zero ELSE Plus(a, Times(k - 1, a))

\* the spacing of doubles around x, in counts of 2^-56: 53 significant bits
Quantum(x) ==
    IF x.hi < 33554432 THEN 1
    ELSE IF x.hi < 67108864 THEN 2
    ELSE IF x.hi < 134217728 THEN 4
    ELSE IF x.hi < 268435456 THEN 8
    ELSE IF x.hi < 536870912 THEN 16
    ELSE IF x.hi < 1073741824 THEN 32
    ELSE 64

\* IEEE 754 round-to-nearest, ties to even, of an exact value
Round(x) ==
    LET q == Quantum(x)
        r == x.lo % q
        down == x.lo - r
        up == 2 * r > q \/ (2 * r = q /\ (down \div q) % 2 = 1)
        l == IF up THEN down + q ELSE down
    IN  Dbl(x.hi + l \div Limb, l % Limb)

\* state.emergenceProgress += delta * 0.8; if (state.emergenceProgress > 1) ... = 1
advance(progress, k) ==
    LET sum == Round(Plus(progress, Round(Times(k, PointEight))))
    IN  IF Less(One, sum) THEN One ELSE sum

\* the tenth nearest to a progress value; the pose of a frame is computed in exact
\* arithmetic at that tenth
Tenths(progress) == ((progress.hi \div 16) * 10 + 8388608) \div 16777216

\* scale, position and rotation are counted in units of 2e-10, easedProgress in
\* units of 2e-8: 1 + c3 * (t - 1)^3 + c1 * (t - 1)^2 with c1 = 1.70158, at t tenths
easeOutBack(t) ==
    LET u == t - 10 IN 50000000 + 135079 * u * u * u + 85079 * u * u * 10

\* Math.sin at k sixteenths of a radian, in units of 1e-4, for k = 0, 1, ...
SinTable ==
    <<0, 625, 1247, 1864, 2474, 3074, 3663, 4237, 4794, 5333, 5851, 6346, 6816, 7260,
      7675, 8061, 8415, 8736, 9023, 9274, 9490, 9668, 9809, 9911, 9975, 10000, 9985,
      9932, 9840, 9709, 9541, 9335, 9093, 8815, 8503, 8158, 7781, 7373, 6937, 6473,
      5985, 5473, 4939, 4386, 3817, 3232, 2634, 2027, 1411, 790, 166, -459, -1082,
      -1701, -2313, -2916, -3508, -4086, -4648, -5192, -5716, -6217, -6694, -7145,
      -7568, -7962, -8324, -8654, -8950, -9211, -9436, -9625, -9775, -9888, -9962,
      -9997, -9993, -9950, -9868, -9748, -9589, -9393, -9161, -8892, -8589, -8253,
      -7884, -7484, -7055, -6599, -6117, -5611, -5083, -4535, -3969, -3388, -2794,
      -2189, -1575, -955, -332, 293, 917, 1537, 2151, 2757, 3352, 3934, 4500>>
sin_smallAngle(k) == k * 625

sin(k) == SinTable[k + 1]

\* Math.sin(bounceProgress * Math.PI) with bounceProgress = (t/10 - 0.8) / 0.2,
\* in units of 1e-4: sin(pi/2) at t = 9, sin(pi) at t = 10
sinPi(t) == IF t = 9 THEN 10000 ELSE 0

\* the transform switchModel gives a model before it is attached:
\* position.set(0, 0, 0), scale.set(0.01, 0.01, 0.01)
configuredPose == [scale |-> 50000000, y |-> 0, z |-> 0, rotY |-> 0]

\* the entry startEmergenceAnimation sets: targetScale 0.3, targetY 0.15
startEntry ==
    [registered |-> TRUE, emergenceProgress |-> Zero, idleTime |-> 0,
     targetScale |-> 1500000000, targetY |-> 750000000]

\* the pose startEmergenceAnimation sets: scale 0.01, position.y -0.05, position.z 0
startPose(pose) == [pose EXCEPT !.scale = 50000000, !.y = -250000000, !.z = 0]

\* the emergence branch of updateIdleAnimation, after emergenceProgress advanced
emergencePose(entry, pose) ==
    LET t == Tenths(entry.emergenceProgress)
        eased == easeOutBack(t)
        scale == 50000000 + ((entry.targetScale - 50000000) \div 50000000) * eased
        y == -250000000 + ((entry.targetY + 250000000) \div 50000000) * eased
        bounce == IF t > 8 THEN sinPi(t) * 10000 ELSE 0
    IN  [pose EXCEPT !.scale = scale, !.y = y + bounce, !.z = 10 * eased]

\* the idle branch of updateIdleAnimation, after idleTime advanced
idlePose(entry, pose) ==
    [pose EXCEPT !.scale = entry.targetScale + sin(3 * entry.idleTime) * 5000,
                 !.y = entry.targetY + sin(4 * entry.idleTime) * 4000,
                 !.rotY = sin(entry.idleTime) * 50000]

registeredFrame_idleOnArrival(entry, pose, k) ==
    IF Less(entry.emergenceProgress, One)
    THEN LET p == advance(entry.emergenceProgress, k)
             e == [entry EXCEPT !.emergenceProgress = p,
                                !.idleTime = IF Less(p, One) THEN @ ELSE @ + k]
         IN  [entry |-> e,
              pose |-> IF Less(p, One) THEN emergencePose(e, pose) ELSE idlePose(e, pose)]
    ELSE LET e == [entry EXCEPT !.idleTime = @ + k]
         IN  [entry |-> e, pose |-> idlePose(e, pose)]

\* updateIdleAnimation for a model that has an entry, with delta k/8
registeredFrame(entry, pose, k) ==
    IF Less(entry.emergenceProgress, One)
    THEN LET e == [entry EXCEPT !.emergenceProgress = advance(@, k)]
         IN  [entry |-> e, pose |-> emergencePose(e, pose)]
    ELSE LET e == [entry EXCEPT !.idleTime = @ + k]
         IN  [entry |-> e, pose |-> idlePose(e, pose)]

animationFrame_defaultEntry(entry, pose, k) ==
    registeredFrame(IF entry.registered THEN entry ELSE startEntry, pose, k)

\* updateIdleAnimation(model, k/8): const state = animationState.get(model);
\* if (!state) return;
animationFrame(entry, pose, k) ==
    IF ~entry.registered THEN [entry |-> entry, pose |-> pose]
    ELSE registeredFrame(entry, pose, k)

\* a direct call of startEmergenceAnimation(model)
callStartEmergenceAnimation ==
    /\ animEntry' = startEntry
    /\ modelPose' = startPose(modelPose)
    /\ deltaSum' = 0
    /\ Seen(Did("startEmergenceAnimation", {"animationState.set"}, "returned"))
    /\ UNCHANGED <<handles, loopVars, initVars, startPending, modelVars, flagVars, callVars,
                   disposed, initError, ghostVars>>

\* a direct call of updateIdleAnimation(model, delta)
callUpdateIdleAnimation ==
    /\ \E k \in Deltas :
         LET f == animationFrame(animEntry, modelPose, k)
         IN  /\ (animEntry.registered /\ ~Less(animEntry.emergenceProgress, One)) =>
                   animEntry.idleTime + k <= MaxIdle
             /\ animEntry' = f.entry
             /\ modelPose' = f.pose
             /\ deltaSum' = (IF animEntry.registered THEN deltaSum + k ELSE deltaSum)
    /\ Seen(Did("updateIdleAnimation", {"animationState.get"}, "returned"))
    /\ UNCHANGED <<handles, loopVars, initVars, startPending, modelVars, flagVars, callVars,
                   disposed, initError, ghostVars>>

\* ------------------------------------------------------------------ render loop

animateUpdates_ignoresTracking == currentModel # NoModel

\* the body of animate after it has requested the next frame
animateUpdates == currentModel # NoModel /\ isTracking
animateRenders_always == TRUE

animateRenders == renderer # NULL /\ scene # NULL /\ camera # NULL
animateCalls ==
    {"requestAnimationFrame"}
    \cup (IF animateUpdates THEN {"updateIdleAnimation"} ELSE {})
    \cup (IF animateRenders THEN {"render"} ELSE {})

animateBody(reaches) ==
    /\ animationFrameId' = FRAME
    /\ animationState' = (IF animateUpdates
                          THEN updateIdleAnimation(animationState, currentModel, reaches)
                          ELSE animationState)

\* a pending animation-frame callback runs
animate ==
    /\ frames > 0
    /\ \E reaches \in BOOLEAN :
         /\ (~animateUpdates \/ ~emerging(animationState, currentModel)) => ~reaches
         /\ animateBody(reaches)
    /\ Seen(Did("animate", animateCalls, "returned"))
    /\ UNCHANGED <<animVars, disposed, initError, callVars,
                   handles, frames, initVars, startPending, currentModel, attached,
                   loaderVars, flagVars, ghostVars>>

\* ------------------------------------------------------------------ startAR

engineMissing_never == FALSE

\* the guard of startAR
engineMissing == mindarThree = NULL

startError_rethrowsOriginal(msg) == msg

\* the error startAR rethrows when mindarThree.start() rejects with message msg
startError(msg) ==
    IF msg = "camera" THEN "Failed to access camera for AR tracking"
    ELSE IF msg = "target" THEN "Failed to load AR target"
    ELSE "Failed to start AR tracking"

\* the Error startAR throws: the guard's, or the rethrow of a rejected start()
notInitialized == [text |-> "AR system not initialized", detail |-> ""]
startThrown(msg) ==
    [text |-> startError(msg),
     detail |-> IF msg \in {"camera", "target"} THEN "" ELSE OrElse(msg, "Unknown error")]

\* the call of startAR, up to the await of mindarThree.start()
startAR ==
    /\ startPending + frames < MaxLoops
    /\ sinceStop' = FALSE
    /\ IF engineMissing
       THEN /\ Seen(Did("startAR", {}, "rejected"))
            /\ initError' = startFailure(notInitialized)
            /\ UNCHANGED startPending
       ELSE /\ Seen(Did("startAR", {"mindarThree.start"}, "pending"))
            /\ initError' = NoAppError
            /\ startPending' = startPending + 1
    /\ UNCHANGED <<animVars, disposed, callVars,
                   handles, loopVars, initVars, modelVars, flagVars,
                   initCalled, everStarted, ready>>

\* mindarThree.start() settles: startRenderLoop, or the rethrow
startSettles ==
    /\ startPending > 0
    /\ startPending' = startPending - 1
    /\ \E ok \in BOOLEAN, msg \in ErrorMessages, reaches \in BOOLEAN :
         /\ ok => msg = ""
         /\ (~ok \/ ~animateUpdates \/ ~emerging(animationState, currentModel)) => ~reaches
         /\ IF ok
            THEN /\ engineRunning' = (mindarThree # NULL)
                 /\ frames' = frames + 1
                 /\ animateBody(reaches)
                 /\ everStarted' = TRUE
                 /\ Seen(Did("startAR.settle", animateCalls, "resolved"))
                 /\ UNCHANGED initError
            ELSE /\ Seen([Did("startAR.settle", {}, "rejected") EXCEPT !.calls = {startError(msg)}])
                 /\ initError' = startFailure(startThrown(msg))
                 /\ UNCHANGED <<engineRunning, loopVars, animationState, everStarted>>
    /\ UNCHANGED <<animVars, disposed, callVars,
                   handles, initVars, currentModel, attached, loaderVars,
                   isTracking, cameraStream, libLoaded, listening,
                   initCalled, sinceStop, ready>>

\* ------------------------------------------------------------------ stopAR

\* disposeModel(m) on the active model, if any: m's geometries and materials are
\* disposed; nothing else is touched
disposeModel(m, throws) == IF m # NoModel /\ ~throws THEN disposed \cup {m} ELSE disposed

\* what stopAR does, given whether disposeModel throws
stopCalls(disposeThrows) ==
    (IF animationFrameId # NULL THEN {"cancelAnimationFrame"} ELSE {})
    \cup (IF mindarThree # NULL THEN {"mindarThree.stop"} ELSE {})
    \cup (IF currentModel # NoModel THEN {"disposeModel"} ELSE {})
    \cup (IF cameraStream # NULL /\ ~disposeThrows THEN {"track.stop"} ELSE {})

stopAR ==
    /\ \E disposeThrows \in BOOLEAN :
         /\ disposeThrows => currentModel # NoModel
         /\ frames' = (IF animationFrameId # NULL THEN frames - 1 ELSE frames)
         /\ animationFrameId' = NULL
         /\ engineRunning' = (IF mindarThree # NULL THEN FALSE ELSE engineRunning)
         /\ currentModel' = (IF disposeThrows THEN currentModel ELSE NoModel)
         /\ disposed' = disposeModel(currentModel, disposeThrows)
         /\ cameraStream' = (IF disposeThrows THEN cameraStream ELSE NULL)
         /\ last' = [op |-> "stopAR", calls |-> stopCalls(disposeThrows),
                     result |-> IF disposeThrows THEN "threw" ELSE "returned",
                     again |-> last.op = "stopAR"]
    /\ initLog' = (IF initPc = "idle" THEN <<>> ELSE initLog)
    /\ initResult' = NoResult
    /\ sinceStop' = TRUE
    /\ ready' = FALSE
    /\ UNCHANGED <<animVars, initError, callVars,
                   handles, initVars, startPending, attached, animationState, loaderVars,
                   isTracking, libLoaded, listening, initCalled, everStarted>>

\* ------------------------------------------------------------------ getRenderer

getRenderer == renderer

\* ------------------------------------------------------------------ model objects

\* a three.js object: a decoded template held by the cache, or an instance made
\* by clone() or createPlaceholderModel()
NoObject == [pool |-> "none", key |-> "", id |-> 0]
templateObject(k, n) == [pool |-> "template", key |-> k, id |-> n]

cacheHit_never(k) == FALSE

\* modelCache.has(modelName)
cacheHit(k) == k \in modelCache

clone_shared(obj, fresh) == obj

\* cached.clone() and model.clone(): a new object
clone(obj, fresh) == [pool |-> "instance", key |-> obj.key, id |-> fresh]

createPlaceholderModel_shared(k, fresh) == [pool |-> "placeholder", key |-> k, id |-> 0]

\* new THREE.Group() with a cube: a new object
createPlaceholderModel(k, fresh) == [pool |-> "instance", key |-> k, id |-> fresh]

\* Object3D.clone() on a template: every mesh of the copy references the geometry
\* and material objects of the mesh it was copied from
cloneMeshData(template) == template

\* ------------------------------------------------------------------ switchModel

\* instances that loadModel has created
Created == {m \in ModelIds : modelKind[m] # "none"}

\* network loads that have not settled
RECURSIVE SumLoads(_, _)
SumLoads(f, keys) ==
    IF keys = {} THEN 0
    ELSE LET k == CHOOSE x \in keys : TRUE IN f[k] + SumLoads(f, keys \ {k})
LoadsInFlight ==
    SumLoads(loads, ModelKeys)
    + Cardinality({i \in 1..Len(loadLog) : loadLog[i].phase = "pending"})

\* the instance the next clone() or createPlaceholderModel() yields
NewModelId == CHOOSE m \in ModelIds \ Created : \A n \in ModelIds \ Created : m <= n

anchorMissing_never == FALSE

\* the guard of switchModel
anchorMissing == anchor = NULL

startsOnAttach_always == TRUE

\* whether switchModel starts the emergence animation of the model it has just
\* attached: the tracking flag as it reads after the load
startsOnAttach == isTracking

\* the part of switchModel after loadModel returned instance m:
\* anchor.group.add throws a TypeError, which is swallowed, when there is no anchor
attachModel(m, children) ==
    IF anchor = NULL
    THEN /\ attached' = children
         /\ UNCHANGED <<currentModel, animationState>>
    ELSE /\ attached' = children \cup {m}
         /\ currentModel' = m
         /\ animationState' = (IF startsOnAttach THEN startEmergenceAnimation(animationState, m)
                               ELSE animationState)
attachCalls ==
    IF anchor = NULL THEN {"loadModel"}
    ELSE {"loadModel", "add"} \cup (IF startsOnAttach THEN {"startEmergenceAnimation"} ELSE {})

\* the call of switchModel: the removal of the previous model, then loadModel up
\* to the network load, or through to the end when the key is cached
switchModel ==
    /\ \E k \in ModelKeys, disposeThrows \in BOOLEAN :
         /\ disposeThrows => (~anchorMissing /\ currentModel # NoModel)
         /\ disposed' = (IF anchorMissing THEN disposed
                         ELSE disposeModel(currentModel, disposeThrows))
         /\ IF anchorMissing
            THEN /\ Seen(Did("switchModel", {}, "resolved"))
                 /\ UNCHANGED <<modelVars>>
            ELSE IF disposeThrows
            THEN /\ attached' = attached \ {currentModel}
                 /\ Seen(Did("switchModel", {"remove", "disposeModel"}, "rejected"))
                 /\ UNCHANGED <<currentModel, animationState, loaderVars>>
            ELSE LET removal == IF currentModel # NoModel THEN {"remove", "disposeModel"} ELSE {}
                     children == attached \ {currentModel}
                 IN  /\ Cardinality(Created) + LoadsInFlight < MaxModels
                     /\ IF k \in modelCache
                        THEN /\ modelKind' = [modelKind EXCEPT ![NewModelId] = "real"]
                             /\ meshData' = [meshData EXCEPT ![NewModelId] =
                                               cloneMeshData(templateObject(k, templates[k]))]
                             /\ attachModel(NewModelId, children)
                             /\ Seen(Did("switchModel", removal \cup attachCalls, "resolved"))
                             /\ UNCHANGED <<modelCache, templates, loads>>
                        ELSE /\ loads' = [loads EXCEPT ![k] = @ + 1]
                             /\ currentModel' = NoModel
                             /\ attached' = children
                             /\ Seen(Did("switchModel", removal \cup {"loadModel"}, "pending"))
                             /\ UNCHANGED <<modelCache, templates, modelKind, meshData, animationState>>
    /\ UNCHANGED <<animVars, initError, callVars,
                   handles, loopVars, initVars, startPending, flagVars, ghostVars>>

\* the network load of a model settles: the rest of loadModel and of switchModel
loadSettles ==
    /\ \E k \in ModelKeys, ok \in BOOLEAN :
         /\ loads[k] > 0
         /\ loads' = [loads EXCEPT ![k] = @ - 1]
         /\ modelCache' = (IF ok THEN modelCache \cup {k} ELSE modelCache)
         /\ templates' = (IF ok THEN [templates EXCEPT ![k] = @ + 1] ELSE templates)
         /\ modelKind' = [modelKind EXCEPT ![NewModelId] = IF ok THEN "real" ELSE "placeholder"]
         /\ meshData' = [meshData EXCEPT ![NewModelId] =
                           IF ok THEN cloneMeshData(templateObject(k, templates[k] + 1))
                           ELSE createPlaceholderModel(k, NewModelId)]
         /\ attachModel(NewModelId, attached)
         /\ Seen(Did("switchModel.settle", attachCalls \ {"loadModel"}, "resolved"))
    /\ UNCHANGED <<animVars, disposed, initError, callVars,
                   handles, loopVars, initVars, startPending, flagVars, ghostVars>>

\* ------------------------------------------------------------------ modelLoader

storesTemplate_always(ok) == TRUE

\* modelCache.set is reached when the load resolved; the catch branch skips it
storesTemplate(ok) == ok

\* a direct call of loadModel(k, onProgress): answered from the cache, or up to
\* the await of the network load
loadModel ==
    /\ Cardinality(Created) + LoadsInFlight < MaxModels
    /\ \E k \in ModelKeys :
         LET call == [key |-> k, epoch |-> clears, phase |-> "pending", fetched |-> TRUE,
                      outcome |-> "pending", object |-> NoObject, progress |-> <<>>,
                      stored |-> FALSE, doneAt |-> 0, doneEpoch |-> 0]
         IN  IF cacheHit(k)
             THEN /\ loadLog' = Append(loadLog,
                                  [call EXCEPT !.phase = "done", !.fetched = FALSE,
                                               !.outcome = "hit",
                                               !.object = clone(templateObject(k, templates[k]),
                                                                NewModelId),
                                               !.progress = <<100>>,
                                               !.doneAt = Len(loadLog) + 1,
                                               !.doneEpoch = clears])
                  /\ modelKind' = [modelKind EXCEPT ![NewModelId] = "real"]
                  /\ meshData' = [meshData EXCEPT ![NewModelId] =
                                    cloneMeshData(templateObject(k, templates[k]))]
                  /\ Seen(Did("loadModel", {"onProgress", "clone"}, "resolved"))
             ELSE /\ loadLog' = Append(loadLog, call)
                  /\ Seen(Did("loadModel", {"gltfLoader.load"}, "pending"))
                  /\ UNCHANGED <<modelKind, meshData>>
    /\ UNCHANGED <<animVars, disposed, initError,
                   handles, loopVars, initVars, startPending, flagVars, ghostVars,
                   currentModel, attached, animationState, modelCache, templates, loads,
                   clears, preloadPc, preloadLog>>

\* the network load of a direct loadModel call settles: the rest of loadModel
loadModelSettles ==
    /\ \E i \in 1..Len(loadLog), ok \in BOOLEAN :
         /\ loadLog[i].phase = "pending"
         /\ LET k == loadLog[i].key
                stores == storesTemplate(ok)
                n == IF stores THEN templates[k] + 1 ELSE templates[k]
            IN  /\ modelCache' = (IF stores THEN modelCache \cup {k} ELSE modelCache)
                /\ templates' = [templates EXCEPT ![k] = n]
                /\ modelKind' = [modelKind EXCEPT ![NewModelId] =
                                   IF ok THEN "real" ELSE "placeholder"]
                /\ meshData' = [meshData EXCEPT ![NewModelId] =
                                  IF ok THEN cloneMeshData(templateObject(k, n))
                                  ELSE createPlaceholderModel(k, NewModelId)]
                /\ loadLog' = [loadLog EXCEPT ![i] =
                                 [@ EXCEPT !.phase = "done",
                                           !.outcome = IF ok THEN "loaded" ELSE "failed",
                                           !.object = IF ok
                                                      THEN clone(templateObject(k, n), NewModelId)
                                                      ELSE createPlaceholderModel(k, NewModelId),
                                           !.progress = <<100>>,
                                           !.stored = stores,
                                           !.doneAt = Len(loadLog),
                                           !.doneEpoch = clears]]
                /\ Seen(Did("loadModel.settle",
                            {"onProgress"} \cup (IF stores THEN {"modelCache.set"} ELSE {})
                            \cup (IF ok THEN {"clone"} ELSE {"createPlaceholderModel"}),
                            "resolved"))
    /\ UNCHANGED <<animVars, disposed, initError,
                   handles, loopVars, initVars, startPending, flagVars, ghostVars,
                   currentModel, attached, animationState, loads,
                   clears, preloadPc, preloadLog>>

\* clearModelCache(): every cached template is disposed, then the cache is emptied
clearModelCache ==
    /\ clears < MaxClears
    /\ \E disposeThrows \in BOOLEAN :
         /\ disposeThrows => modelCache # {}
         /\ IF disposeThrows
            THEN /\ Seen(Did("clearModelCache", {"disposeModel"}, "threw"))
                 /\ UNCHANGED <<modelCache, templates, clears>>
            ELSE /\ modelCache' = {}
                 /\ templates' = [k \in ModelKeys |-> 0]
                 /\ clears' = clears + 1
                 /\ Seen(Did("clearModelCache",
                             IF modelCache # {} THEN {"disposeModel", "clear"} ELSE {"clear"},
                             "returned"))
    /\ UNCHANGED <<animVars, disposed, initError,
                   handles, loopVars, initVars, startPending, flagVars, ghostVars,
                   currentModel, attached, animationState, loads, modelKind, meshData,
                   loadLog, preloadPc, preloadLog>>

\* the order in which preloadAllModels walks the keys
PreloadOrder == <<"AlexBird", "Bear", "Deer">>

\* the first position from `from` on whose key has no cached template, or one past
\* the end: loadModel answers the cached keys without a network load
RECURSIVE FirstMiss(_, _)
FirstMiss(from, cache) ==
    IF from > Len(PreloadOrder) THEN from
    ELSE IF PreloadOrder[from] \notin cache THEN from
    ELSE FirstMiss(from + 1, cache)

preloadNext_abortOnFailure(p, ok) == IF ok THEN p + 1 ELSE Len(PreloadOrder) + 1

\* the loop of preloadAllModels after the load at position p settled: loadModel
\* resolves either way and the handler around it continues, so the next key is next
preloadNext(p, ok) == p + 1

\* the keys attempted when the loop, resuming at `next`, stops at position p
preloadAttempted(next, p, log) ==
    IF next > Len(PreloadOrder) THEN log
    ELSE SubSeq(PreloadOrder, 1, IF p > Len(PreloadOrder) THEN Len(PreloadOrder) ELSE p)

\* the call of preloadAllModels, up to its first network load
preloadAllModels ==
    /\ preloadPc = 0
    /\ LET p == FirstMiss(1, modelCache)
       IN  /\ preloadLog' = preloadAttempted(1, p, <<>>)
           /\ preloadPc' = (IF p > Len(PreloadOrder) THEN 0 ELSE p)
           /\ Seen(Did("preloadAllModels",
                       IF p > Len(PreloadOrder) THEN {"loadModel"}
                       ELSE {"loadModel", "gltfLoader.load"},
                       IF p > Len(PreloadOrder) THEN "resolved" ELSE "pending"))
    /\ UNCHANGED <<animVars, disposed, initError,
                   handles, loopVars, initVars, startPending, flagVars, ghostVars,
                   modelVars, loadLog, clears>>

\* the network load preloadAllModels awaits settles: the rest of that loadModel
\* call, whose result is dropped, and the loop up to its next network load
preloadSettles ==
    /\ preloadPc > 0
    /\ \E ok \in BOOLEAN :
         LET k == PreloadOrder[preloadPc]
             stores == storesTemplate(ok)
             cache == IF stores THEN modelCache \cup {k} ELSE modelCache
             next == preloadNext(preloadPc, ok)
             p == FirstMiss(next, cache)
         IN  /\ modelCache' = cache
             /\ templates' = (IF stores THEN [templates EXCEPT ![k] = @ + 1] ELSE templates)
             /\ preloadLog' = preloadAttempted(next, p, preloadLog)
             /\ preloadPc' = (IF p > Len(PreloadOrder) THEN 0 ELSE p)
             /\ Seen(Did("preloadAllModels.settle",
                         (IF stores THEN {"modelCache.set"} ELSE {})
                         \cup (IF ok THEN {"clone"} ELSE {"createPlaceholderModel"})
                         \cup (IF next <= Len(PreloadOrder) THEN {"loadModel"} ELSE {})
                         \cup (IF p <= Len(PreloadOrder) THEN {"gltfLoader.load"} ELSE {}),
                         IF p > Len(PreloadOrder) THEN "resolved" ELSE "pending"))
    /\ UNCHANGED <<animVars, disposed, initError,
                   handles, loopVars, initVars, startPending, flagVars, ghostVars,
                   currentModel, attached, animationState, loads, modelKind, meshData,
                   loadLog, clears>>

\* ------------------------------------------------------------------ tracking events

\* the running engine detects the target: the targetFound listener
targetFound ==
    /\ engineRunning /\ listening
    /\ isTracking' = TRUE
    /\ animationState' = (IF currentModel # NoModel
                          THEN startEmergenceAnimation(animationState, currentModel)
                          ELSE animationState)
    /\ Seen(Did("targetFound", IF currentModel # NoModel THEN {"startEmergenceAnimation"} ELSE {},
                "returned"))
    /\ UNCHANGED <<animVars, disposed, initError, callVars,
                   handles, loopVars, initVars, startPending, currentModel, attached,
                   loaderVars, cameraStream, libLoaded, engineRunning, listening, ghostVars>>

\* the running engine loses the target: the targetLost listener
targetLost ==
    /\ engineRunning /\ listening
    /\ isTracking' = FALSE
    /\ Seen(Did("targetLost", {}, "returned"))
    /\ UNCHANGED <<animVars, disposed, initError, callVars,
                   handles, loopVars, initVars, startPending, modelVars,
                   cameraStream, libLoaded, engineRunning, listening, ghostVars>>

\* ------------------------------------------------------------------ system

Init ==
    /\ mindarThree = NULL /\ renderer = NULL /\ scene = NULL /\ camera = NULL
    /\ anchor = NULL
    /\ currentModel = NoModel
    /\ animationFrameId = NULL
    /\ isTracking = FALSE
    /\ cameraStream = NULL
    /\ libLoaded \in BOOLEAN
    /\ engineRunning = FALSE
    /\ listening = FALSE
    /\ attached = {}
    /\ frames = 0
    /\ initPc = "idle" /\ headIdx = 0 /\ attempts = 0
    /\ startPending = 0
    /\ modelCache = {}
    /\ templates = [k \in ModelKeys |-> 0]
    /\ loadLog = <<>>
    /\ clears = 0
    /\ preloadPc = 0
    /\ preloadLog = <<>>
    /\ loads = [k \in ModelKeys |-> 0]
    /\ modelKind = [m \in ModelIds |-> "none"]
    /\ meshData = [m \in ModelIds |-> NoObject]
    /\ animationState = [m \in ModelIds |-> "none"]
    /\ disposed = {}
    /\ animEntry = NoEntry
    /\ modelPose = configuredPose
    /\ deltaSum = 0
    /\ initError = NoAppError
    /\ last = Did("load", {}, "none")
    /\ initLog = <<>>
    /\ initResult = NoResult
    /\ initCalled = FALSE
    /\ everStarted = FALSE
    /\ sinceStop = FALSE
    /\ ready = FALSE

\* the session without model switches and tracking events
SessionNext ==
    \/ initializeAR
    \/ headResponse
    \/ libraryLoads
    \/ waitForMindAR
    \/ permissionSettles
    \/ startAR
    \/ startSettles
    \/ stopAR
    \/ animate

SessionSpec == Init /\ [][SessionNext]_vars

Next ==
    \/ SessionNext
    \/ switchModel
    \/ loadSettles
    \/ targetFound
    \/ targetLost
    \/ loadModel
    \/ loadModelSettles
    \/ clearModelCache
    \/ preloadAllModels
    \/ preloadSettles
    \/ callStartEmergenceAnimation
    \/ callUpdateIdleAnimation

Spec == Init /\ [][Next]_vars

\* the session with model switches and tracking events, on a page that loaded the
\* engine script first, initializes once and starts AR only while no render loop
\* is running or about to
ModelInit == Init /\ libLoaded

ModelNext ==
    \/ (~initCalled /\ initializeAR)
    \/ headResponse
    \/ permissionSettles
    \/ (startPending = 0 /\ frames = 0 /\ startAR)
    \/ startSettles
    \/ stopAR
    \/ animate
    \/ switchModel
    \/ loadSettles
    \/ targetFound
    \/ targetLost

ModelSpec == ModelInit /\ [][ModelNext]_vars

\* the models the page selects in the tracking sessions
SelectedKeys == {"AlexBird", "Bear"}

\* the same session when the engine's start() resolves and the page calls
\* switchModel, for one of the selected models, only while no model load is in
\* flight
TrackingNext ==
    \/ (~initCalled /\ initializeAR)
    \/ headResponse
    \/ permissionSettles
    \/ (startPending = 0 /\ frames = 0 /\ startAR)
    \/ (startSettles /\ last'.result = "resolved")
    \/ stopAR
    \/ animate
    \/ (LoadsInFlight = 0 /\ switchModel /\ \A k \in ModelKeys \ SelectedKeys : loads'[k] = 0)
    \/ loadSettles
    \/ targetFound
    \/ targetLost

TrackingSpec == ModelInit /\ [][TrackingNext]_vars

\* the animationController under direct calls, for one model
AnimNext ==
    \/ callStartEmergenceAnimation
    \/ callUpdateIdleAnimation

AnimSpec == Init /\ [][AnimNext]_vars

\* the modelLoader under direct loadModel calls
LoaderNext ==
    \/ loadModel
    \/ loadModelSettles
    \/ clearModelCache

LoaderSpec == Init /\ [][LoaderNext]_vars

\* the modelLoader under preloadAllModels
PreloadNext ==
    \/ preloadAllModels
    \/ preloadSettles
    \/ clearModelCache

PreloadSpec == Init /\ [][PreloadNext]_vars

\* ------------------------------------------------------------------ properties

\* the initializeAR call in flight or just returned met a failed existence check
ValidationFailed == \E i \in 1..Len(initLog) : initLog[i] = Step("validation", "failed")

\* an initializeAR call has just returned
Returned == initPc = "idle" /\ initResult # NoResult

\* C1: when the HEAD check of the target or of a model resource is not ok or
\* rejects, initializeAR returns success false with error type 'validation', and
\* that run never reaches the permission step nor calls getUserMedia
C1_ValidationFailureBeforeCamera ==
    ValidationFailed =>
        /\ Returned
        /\ ~initResult.success
        /\ initResult.error.type = "validation"
        /\ \A i \in 1..Len(initLog) : initLog[i].step # "permission"
        /\ "getUserMedia" \notin last.calls

C1_Witness ==
    /\ Returned
    /\ ValidationFailed
    /\ initResult.error.message.detail = "model"
    /\ last.op = "initializeAR.return"

\* C2: initializeAR never throws: whatever its steps do, an exception inside a
\* step included, the call resolves, to success without an error or to a failure
\* whose error has a type and a message
C2_InitializeNeverThrows ==
    /\ last.op = "initializeAR.return" => (last.result = "resolved" /\ Returned)
    /\ last.op = "initializeAR.step" => (last.result = "pending" /\ initPc # "idle")
    /\ Returned =>
         \/ initResult.success /\ initResult.error = NoError
         \/ /\ ~initResult.success
            /\ initResult.error.type \in
                 {"webgl", "validation", "library", "permission", "not-found", "in-use",
                  "unknown", "initialization"}
            /\ initResult.error.message.text # ""

C2_Witness ==
    /\ Returned
    /\ initLog[Len(initLog)] = Step("scene", "failed")
    /\ initResult.error.message.detail = "other"

StepOrder == <<"capability", "validation", "library", "permission", "engine", "scene">>

\* C3: initializeAR attempts its steps in the fixed order and a step is attempted
\* only after every earlier step succeeded; the engine is constructed only after
\* the permission was granted and addAnchor is called only after the engine was
\* constructed
C3_StepsInOrderFailFast ==
    /\ Len(initLog) <= Len(StepOrder)
    /\ \A i \in 1..Len(initLog) :
         /\ initLog[i].step = StepOrder[i]
         /\ i < Len(initLog) => initLog[i].outcome = "ok"
    /\ (last.op = "initializeAR.return" /\ "new MindARThree" \in last.calls) =>
         (Len(initLog) >= 5 /\ initLog[4].outcome = "ok")
    /\ (last.op = "initializeAR.return" /\ "addAnchor" \in last.calls) =>
         (Len(initLog) = 6 /\ initLog[5].outcome = "ok")

C3_Witness ==
    /\ Returned
    /\ Len(initLog) = 6
    /\ initResult.success
    /\ "addAnchor" \in last.calls

\* C4: a stopAR call directly after another stopAR call, and a stopAR call before
\* any successful startAR, performs no operation (no frame cancelled, no engine
\* stop, no model disposed, no stream stopped) and raises no error
C4_StopIsIdempotent ==
    (last.op = "stopAR" /\ (last.again \/ ~everStarted)) =>
        (last.calls = {} /\ last.result = "returned")

\* C5: after stopAR has returned and until startAR is called again, no render-loop
\* tick runs and no frame is scheduled
C5_NoTickAfterStop ==
    sinceStop =>
        /\ last.op \notin {"animate", "startAR.settle"} \/ "requestAnimationFrame" \notin last.calls
        /\ frames = 0
        /\ animationFrameId = NULL

\* C6: after stopAR has returned the renderer, scene, camera, anchor and engine
\* handles are null, no model is active, isTracking is false and getRenderer()
\* returns none
C6_StopResetsSession ==
    (last.op = "stopAR" /\ last.result = "returned") =>
        /\ mindarThree = NULL /\ renderer = NULL /\ scene = NULL /\ camera = NULL
        /\ anchor = NULL
        /\ currentModel = NoModel
        /\ ~isTracking
        /\ getRenderer = NULL

C8_StartRequiresReady ==
    (last.op = "startAR" /\ ~ready) =>
        (last.result = "rejected" /\ "mindarThree.start" \notin last.calls)

\* C9: switchModel never throws or rejects, whatever the model load and the
\* detaching and disposing of the previous model do
C9_SwitchNeverRejects ==
    last.op \in {"switchModel", "switchModel.settle"} => last.result \in {"resolved", "pending"}

\* C10: switchModel called while there is no anchor does not throw, does not call
\* loadModel and leaves the model cache, the active model, the tracking flag and
\* the animation-state table as they were
C10_SwitchWithoutAnchorIsNoOp ==
    [][(last'.op = "switchModel" /\ anchor = NULL) =>
         /\ last'.result = "resolved"
         /\ last'.calls = {}
         /\ UNCHANGED <<modelCache, currentModel, isTracking, animationState, loads,
                        modelKind, attached>>]_vars

C10_Witness ==
    /\ last.op = "switchModel"
    /\ anchor = NULL
    /\ last.result = "resolved"
    /\ initCalled /\ initPc = "idle"

\* the direct loadModel calls and those that have returned
Calls == 1..Len(loadLog)
Done == {i \in Calls : loadLog[i].phase = "done"}
Failed == {i \in Done : loadLog[i].outcome = "failed"}

\* the template objects the cache holds
CachedTemplates == {templateObject(k, templates[k]) : k \in modelCache}

\* C11: loadModel resolves to an object for every key and every outcome of the
\* load; a failed load resolves to a placeholder that is not put in the cache, and
\* two failed calls for one key return two different placeholders
C11_LoadAlwaysReturnsAnObject ==
    /\ \A i \in Done :
         /\ loadLog[i].key \in ModelKeys
         /\ loadLog[i].object # NoObject
    /\ \A i \in Failed :
         /\ ~loadLog[i].stored
         /\ loadLog[i].object \notin CachedTemplates
    /\ \A i, j \in Failed :
         (i # j /\ loadLog[i].key = loadLog[j].key) => loadLog[i].object # loadLog[j].object

C11_Witness ==
    \E i, j \in Failed :
        /\ i # j
        /\ loadLog[i].key = loadLog[j].key
        /\ loadLog[i].key \notin modelCache

\* call j was made after call i had returned, with no completed clearModelCache
\* in between
LaterUncleared(i, j) ==
    /\ i \in Done /\ j \in Calls
    /\ j > loadLog[i].doneAt
    /\ loadLog[j].key = loadLog[i].key
    /\ loadLog[j].epoch = loadLog[i].doneEpoch

\* C12: after a loadModel call for a key completed successfully, a later call for
\* that key with no clearModelCache in between issues no network fetch, reports
\* progress once, with the value 100, and returns an object other than the one the
\* first call returned
C12_SecondLoadIsACacheHit ==
    \A i, j \in Calls :
        (LaterUncleared(i, j) /\ loadLog[i].outcome \in {"loaded", "hit"}) =>
            /\ ~loadLog[j].fetched
            /\ loadLog[j].phase = "done"
            /\ loadLog[j].progress = <<100>>
            /\ loadLog[j].object # loadLog[i].object

C12_Witness ==
    \E i, j \in Calls :
        /\ LaterUncleared(i, j)
        /\ loadLog[i].outcome = "loaded"
        /\ loadLog[j].outcome = "hit"

\* C13: for each key at most one network load of its template succeeds between
\* two clearModelCache calls, overlapping loadModel calls for the key included
C13_OneNetworkLoadPerKey ==
    \A k \in ModelKeys : templates[k] <= 1

\* the templates decoded since the cache was last cleared
DecodedTemplates == {templateObject(k, n) : k \in ModelKeys, n \in 1..MaxModels + 1}

\* C14: an object loadModel returns belongs to its caller alone: it is no template
\* of the cache, and no two calls return the same object
C14_ReturnedObjectsAreOwned ==
    /\ \A i \in Done :
         /\ loadLog[i].object \notin DecodedTemplates
         /\ loadLog[i].object \notin CachedTemplates
    /\ \A i, j \in Done : i # j => loadLog[i].object # loadLog[j].object

C14_Witness ==
    \E i, j \in Done :
        /\ i # j
        /\ loadLog[i].key = loadLog[j].key
        /\ loadLog[i].outcome = "loaded"
        /\ loadLog[j].outcome = "loaded"

\* C15: once the cache holds a template for a key, that entry is not replaced by
\* another template object until clearModelCache empties the cache
C15_CacheIsFirstWriteWins ==
    [][\A k \in ModelKeys :
         (templates[k] # 0 /\ templates'[k] # 0) => templates'[k] = templates[k]]_vars

\* when call j was made the cache could hold a template for its key: a load of the
\* key had succeeded before, with no completed clearModelCache since
LoadedBefore(j) ==
    \E h \in Done :
        /\ loadLog[h].outcome = "loaded"
        /\ loadLog[h].key = loadLog[j].key
        /\ loadLog[h].doneAt < j
        /\ loadLog[h].doneEpoch = loadLog[j].epoch

\* C16: a failed loadModel call stores nothing in the cache, so the next call for
\* the key fetches again; when that fetch succeeds the call caches the template
\* and returns a clone of the real asset
C16_FailedLoadIsRetried ==
    /\ \A i \in Failed : ~loadLog[i].stored
    /\ preloadLog = <<>> =>
         \A i \in Failed, j \in Calls :
             (j > loadLog[i].doneAt /\ loadLog[j].key = loadLog[i].key /\ ~LoadedBefore(j)) =>
                 /\ loadLog[j].fetched
                 /\ loadLog[j].outcome = "loaded" =>
                      /\ loadLog[j].stored
                      /\ loadLog[j].object.pool = "instance"
                      /\ modelKind[loadLog[j].object.id] = "real"
                      /\ loadLog[j].key \in modelCache \/ clears > loadLog[j].doneEpoch

C16_Witness ==
    \E i \in Failed, j \in Done :
        /\ j > loadLog[i].doneAt
        /\ loadLog[j].key = loadLog[i].key
        /\ loadLog[j].outcome = "loaded"
        /\ loadLog[j].key \in modelCache

\* C17: preloadAllModels attempts the keys in the order AlexBird, Bear, Deer, each
\* once and one at a time; a failed load does not keep the later keys from being
\* attempted, and the call resolves, after the third attempt has settled
C17_PreloadAttemptsEveryKeyInOrder ==
    /\ Len(preloadLog) <= Len(PreloadOrder)
    /\ preloadLog = SubSeq(PreloadOrder, 1, Len(preloadLog))
    /\ preloadPc > 0 => Len(preloadLog) = preloadPc
    /\ (preloadPc = 0 /\ preloadLog # <<>>) => preloadLog = PreloadOrder
    /\ last.op \in {"preloadAllModels", "preloadAllModels.settle"} =>
         /\ last.result \in {"resolved", "pending"}
         /\ last.result = "resolved" <=> preloadPc = 0
         /\ last.result = "resolved" => preloadLog = PreloadOrder

C17_Witness ==
    /\ last.op = "preloadAllModels.settle"
    /\ last.result = "resolved"
    /\ preloadLog = PreloadOrder
    /\ clears = 0
    /\ modelCache = {"AlexBird", "Deer"}

\* the readiness wait of the initializeAR call in flight is polling
Polling == initPc = "waitLib"

\* C18: the readiness wait settles within 100 polls: it does not start polling when
\* the engine is available, it resolves at the first poll that finds the engine,
\* and it rejects at the 100th poll and polls no more; initializeAR then returns a
\* 'library' failure without requesting the camera
C18_ReadinessWaitIsBounded ==
    /\ [](/\ attempts < maxAttempts
          /\ (Polling /\ last.op = "initializeAR.step") => ~libLoaded
          /\ (Returned /\ initLog[Len(initLog)] = Step("library", "failed")) =>
               /\ ~initResult.success
               /\ initResult.error.type = "library"
               /\ "clearInterval" \in last.calls
               /\ "getUserMedia" \notin last.calls
               /\ \A i \in 1..Len(initLog) : initLog[i].step # "permission")
    /\ [][/\ (Polling /\ libLoaded /\ initPc' # initPc) => initPc' = "permission"
          /\ (Polling /\ ~libLoaded /\ attempts + 1 < maxAttempts) => Polling'
          /\ (Polling /\ initPc' = "idle") =>
               /\ attempts + 1 = maxAttempts
               /\ ~libLoaded
               /\ initLog'[Len(initLog')] = Step("library", "failed")]_vars

C18_Witness ==
    /\ Returned
    /\ initLog[Len(initLog)] = Step("library", "failed")
    /\ initResult.error.type = "library"
    /\ ~libLoaded

\* the error types of the specified taxonomy
Taxonomy ==
    {"capability", "validation", "library", "permission", "not-found", "in-use",
     "initialization", "unknown"}

\* C19: when the graphics context cannot be created initializeAR fails with error
\* type 'capability', and every error type initializeAR returns is one of the
\* taxonomy
C19_ErrorTypesAreInTheTaxonomy ==
    /\ (Returned /\ ~initResult.success) => initResult.error.type \in Taxonomy
    /\ (Returned /\ initLog[1] = Step("capability", "failed")) =>
         initResult.error.type = "capability"

\* the category of a camera error, by its name
Category(name) ==
    IF name \in {"NotAllowedError", "PermissionDeniedError"} THEN "permission"
    ELSE IF name \in {"NotFoundError", "DevicesNotFoundError"} THEN "not-found"
    ELSE IF name \in {"NotReadableError", "TrackStartError"} THEN "in-use"
    ELSE "unknown"

\* the permission step of the initializeAR call failed
PermissionFailed ==
    Len(initLog) >= 4 /\ initLog[4].step = "permission" /\ initLog[4].outcome = "failed"

\* C20: a rejected permission request is classified by the name of its error into
\* 'permission', 'not-found', 'in-use' or else 'unknown'; initializeAR returns
\* that category as its error type and constructs no engine
C20_CameraErrorsAreClassified ==
    PermissionFailed =>
        /\ Returned
        /\ ~initResult.success
        /\ initResult.error.type = Category(initLog[4].error)
        /\ Len(initLog) = 4
        /\ "new MindARThree" \notin last.calls

C20_Witness ==
    /\ PermissionFailed
    /\ Returned
    /\ initLog[4].error = "TrackStartError"
    /\ initResult.error.type = "in-use"

\* the permission step of the initializeAR call was granted and released its stream
PermissionGranted ==
    Len(initLog) >= 4 /\ initLog[4].step = "permission" /\ initLog[4].outcome = "ok"

\* C21 as stated: a granted permission request stops and clears the probe stream
\* before the engine is constructed, and whenever no permission step is executing
\* the session holds no camera-probe stream
C21_NoProbeStreamOutsidePermission ==
    /\ (Returned /\ "new MindARThree" \in last.calls) => cameraStream = NULL
    /\ initPc # "permission" => cameraStream = NULL

\* C21: a granted permission request whose stream was released leaves no stream
\* reference, so none is held when the engine is constructed, in a session whose
\* initialization succeeded, or after a stopAR that returned; a stream reference
\* outlives the permission step only when stopping its tracks threw, and that
\* initializeAR call fails
C21_GrantedProbeIsReleased ==
    /\ [](/\ (Returned /\ PermissionGranted) => cameraStream = NULL
          /\ (Returned /\ "new MindARThree" \in last.calls) => cameraStream = NULL
          /\ ready => cameraStream = NULL
          /\ (last.op = "stopAR" /\ last.result = "returned") => cameraStream = NULL)
    /\ [][(cameraStream = NULL /\ cameraStream' # NULL) =>
            (Returned' /\ PermissionFailed' /\ ~initResult'.success)]_vars

C21_Witness ==
    /\ Returned
    /\ PermissionGranted
    /\ "new MindARThree" \in last.calls
    /\ cameraStream = NULL
    /\ initCalled

Tick(d) == d.op = "animate" \/ (d.op = "startAR.settle" /\ d.result = "resolved")

\* C23: a target-lost event clears the tracking flag and changes nothing else, the
\* active model stays attached; while the flag is clear no render tick updates a
\* model or its animation state, and only a target-found event sets the flag again
C23_TargetLostFreezesAnimation ==
    [][/\ last'.op = "targetLost" =>
            /\ ~isTracking'
            /\ last'.calls = {}
            /\ UNCHANGED <<handles, loopVars, initVars, startPending, modelVars, disposed,
                           cameraStream, libLoaded, engineRunning, listening>>
       /\ (~isTracking /\ Tick(last')) =>
            /\ UNCHANGED <<currentModel, attached, animationState>>
            /\ "updateIdleAnimation" \notin last'.calls
       /\ (~isTracking /\ isTracking') => last'.op = "targetFound"]_vars

C23_Witness ==
    /\ last.op = "animate"
    /\ ~isTracking
    /\ currentModel # NoModel
    /\ currentModel \in attached
    /\ animationState[currentModel] = "emergence"

\* C24 as stated: every model that has an animation-state entry has not been
\* disposed
C24_NoDanglingAnimationEntries ==
    \A m \in ModelIds : animationState[m] # "none" => m \notin disposed

\* C25 as stated: after startEmergenceAnimation every updateIdleAnimation call keeps
\* emergenceProgress non-decreasing and at most 1, a call below 1 adds delta * 0.8
\* clamped to 1, once the deltas sum to at least 1.25 s (10 eighths)
\* emergenceProgress is exactly 1, and it stays 1 until the next
\* startEmergenceAnimation
C25_EmergenceProgressReachesOne ==
    [][(last'.op = "updateIdleAnimation" /\ animEntry.registered) =>
         /\ ~Less(animEntry'.emergenceProgress, animEntry.emergenceProgress)
         /\ ~Less(One, animEntry'.emergenceProgress)
         /\ Less(animEntry.emergenceProgress, One) =>
              animEntry'.emergenceProgress =
                  advance(animEntry.emergenceProgress, deltaSum' - deltaSum)
         /\ animEntry.emergenceProgress = One => animEntry'.emergenceProgress = One
         /\ deltaSum' >= 10 => animEntry'.emergenceProgress = One]_vars

\* the model is registered and has not entered its idle branch
InEmergence == animEntry.registered /\ animEntry.idleTime = 0

\* C26 as stated: during emergence the scale stays within [0.01, 0.3] and the Y
\* position within [-0.05, 0.15] widened by the bounce of at most 0.02, for every
\* emergenceProgress updateIdleAnimation reaches
C26_EmergencePoseWithinBounds ==
    InEmergence =>
        /\ modelPose.scale >= 50000000
        /\ modelPose.scale <= animEntry.targetScale
        /\ modelPose.y >= -250000000
        /\ modelPose.y <= animEntry.targetY + 100000000

\* the distance between two values
Dist(a, b) == IF a < b THEN b - a ELSE a - b

C28_UpdateWithoutEntryIsNoOp ==
    [][(last'.op = "updateIdleAnimation" /\ ~animEntry.registered) =>
         /\ animEntry' = NoEntry
         /\ modelPose' = modelPose
         /\ UNCHANGED <<animationState, deltaSum>>]_vars

C28_Witness ==
    /\ last.op = "updateIdleAnimation"
    /\ "animationState.get" \in last.calls
    /\ ~animEntry.registered
    /\ modelPose = configuredPose

\* C29: every error the UI holds has type 'permission', 'camera' or
\* 'initialization'; for a failed initializeAR it holds the returned error with its
\* own type when that is one of the three, with 'initialization' otherwise, and
\* with the returned message
C29_ShownErrorsHaveUiTypes ==
    /\ initError # NoAppError => initError.type \in ErrorType
    /\ (Returned /\ ~initResult.success) =>
         /\ initError.message = initResult.error.message
         /\ initResult.error.type \in {"permission", "camera", "initialization"} =>
              initError.type = initResult.error.type
         /\ initResult.error.type \notin {"permission", "camera", "initialization"} =>
              initError.type = "initialization"

C29_Witness ==
    /\ Returned
    /\ initResult.error.type = "in-use"
    /\ initError.type = "initialization"
    /\ initError.message.text = "Camera is already in use by another application"

C31_LoopStartsAfterEngineStart ==
    /\ []((last.op = "startAR.settle" /\ last.result = "rejected") =>
            \E t \in {"Failed to access camera for AR tracking", "Failed to load AR target",
                       "Failed to start AR tracking"} : last.calls = {t})
    /\ [][/\ (last'.op = "startAR.settle" /\ last'.result = "rejected") =>
               UNCHANGED <<loopVars, engineRunning>>
          /\ last'.op = "startAR" => UNCHANGED <<loopVars, engineRunning>>
          /\ (last'.op \in {"startAR", "startAR.settle"} /\ frames' # frames) =>
               /\ last'.op = "startAR.settle"
               /\ last'.result = "resolved"
               /\ startPending' = startPending - 1
               /\ "requestAnimationFrame" \in last'.calls]_vars

C31_Witness ==
    /\ last.op = "startAR.settle"
    /\ last.result = "rejected"
    /\ last.calls = {"Failed to load AR target"}
    /\ frames = 0
    /\ animationFrameId = NULL
    /\ mindarThree # NULL

\* C32: the step that attaches a loaded model makes it the active model and starts
\* its emergence exactly when the tracking flag is set in that step, whatever the
\* flag was when switchModel was called; attached while the flag is clear the model
\* gets no animation state, and a target-found event on an active model without
\* animation state starts its emergence
C32_EmergenceFollowsTrackingAtAttach ==
    [][/\ \A m \in ModelIds : (m \notin attached /\ m \in attached') =>
            /\ last'.op \in {"switchModel", "switchModel.settle"}
            /\ last'.result = "resolved"
            /\ currentModel' = m
            /\ isTracking' = isTracking
            /\ animationState[m] = "none"
            /\ animationState'[m] = (IF isTracking THEN "started" ELSE "none")
            /\ ("startEmergenceAnimation" \in last'.calls) <=> isTracking
            /\ \A n \in ModelIds \ {m} : animationState'[n] = animationState[n]
       /\ (last'.op = "targetFound" /\ currentModel # NoModel
              /\ animationState[currentModel] = "none") =>
            /\ currentModel' = currentModel
            /\ animationState'[currentModel] = "started"]_vars

C32_Witness ==
    /\ last.op = "switchModel.settle"
    /\ ~isTracking
    /\ engineRunning
    /\ currentModel # NoModel
    /\ currentModel \in attached
    /\ animationState[currentModel] = "none"

\* C33 as stated: at most one model is attached to the anchor and it is the active
\* model, so a model that is no longer the active model is attached no longer
C33_OnlyActiveModelAttached ==
    /\ Cardinality(attached) <= 1
    /\ \A m \in attached : m = currentModel

\* C34 as stated: a model load that was pending when stopAR returned attaches
\* nothing when it completes, and the active model stays null
C34_StopCancelsPendingSwitch ==
    [][(last.op = "stopAR" /\ last.result = "returned" /\ last'.op = "switchModel.settle") =>
         /\ attached' = attached
         /\ currentModel' = NoModel]_vars

\* the objects whose geometry and material were disposed by disposeModel on an
\* instance
disposedMeshData == {meshData[m] : m \in disposed}

\* C35 as stated: disposeModel on an instance disposes no geometry or material
\* that the cached template of a key or an instance not yet disposed references
C35_DisposeSparesSharedResources ==
    /\ \A k \in modelCache : templateObject(k, templates[k]) \notin disposedMeshData
    /\ \A n \in Created \ disposed : meshData[n] \notin disposedMeshData

\* C36 as stated: while the tracking flag is set every model that is attached to
\* the anchor, and has not been disposed, has a registered animation state
C36_TrackedAttachedModelHasAnimationState ==
    isTracking => \A m \in attached \ disposed : animationState[m] # "none"

\* C37: an entry whose emergenceProgress is below 1 has idleTime 0; an update call
\* changes idleTime only when emergenceProgress had reached 1 before the call; an
\* update call made below 1, the one that reaches 1 included, leaves idleTime 0
\* and applies the emergence pose; startEmergenceAnimation sets both fields to 0
C37_IdleTimeStartsAfterEmergence ==
    /\ []((animEntry.registered /\ Less(animEntry.emergenceProgress, One)) =>
            animEntry.idleTime = 0)
    /\ [][/\ (last'.op = "updateIdleAnimation" /\ animEntry.registered
               /\ animEntry'.idleTime # animEntry.idleTime) =>
               /\ animEntry.emergenceProgress = One
               /\ animEntry'.emergenceProgress = One
          /\ (last'.op = "updateIdleAnimation" /\ animEntry.registered
               /\ Less(animEntry.emergenceProgress, One)) =>
               /\ animEntry'.idleTime = 0
               /\ ~Less(animEntry'.emergenceProgress, animEntry.emergenceProgress)
               /\ ~Less(One, animEntry'.emergenceProgress)
               /\ modelPose' = emergencePose(animEntry', modelPose)
          /\ last'.op = "startEmergenceAnimation" =>
               /\ animEntry'.registered
               /\ animEntry'.emergenceProgress = Zero
               /\ animEntry'.idleTime = 0]_vars

C37_Witness ==
    /\ last.op = "updateIdleAnimation"
    /\ animEntry.registered
    /\ animEntry.emergenceProgress = One
    /\ animEntry.idleTime = 0
    /\ deltaSum > 0
    /\ modelPose.rotY = 0
    /\ modelPose = emergencePose(animEntry, modelPose)

====
